---- MODULE Spec2Model ----
(***************************************************************************)
(* The Apple Music download-and-deliver job of bot/providers/apple and     *)
(* bot/modules/download.py, as a state machine.  One job runs through one  *)
(* of the three entry points:                                              *)
(*   "handle_apple_download"  downloader.py:118 (the download command)     *)
(*   "start_apple"            downloader.py:174                            *)
(*   "process"                apple.py:30  AppleMusicCore.process          *)
(* The acquisition process is the environment: it prints lines one at a    *)
(* time, closes its output and exits with a status.  The messaging         *)
(* collaborator edit_message is external and may raise on any call.        *)
(***************************************************************************)
EXTENDS Integers, Sequences, FiniteSets, TLC

\* ---------------------------------------------------------------- bounds
\* Longest output (in lines) the acquisition process prints in a free run.
MaxLines == 3
\* Largest number of entries of the option map of a job.
MaxOpts == 2
\* Largest number of media files the acquisition process leaves behind.
MaxItems == 2

\* Lines the standard-output pipe holds before a write to it blocks.
OutCap == 2
\* Chunks standard error holds unread (the kernel pipe and the buffer of the
\* event loop's stream reader, which stops reading once it is full) before a
\* write to it blocks.
ErrCap == 2
\* Most lines a process of the pipe model prints on standard output.
MaxOut == 2
\* Most chunks a process of the pipe model writes to standard error.
MaxErr == 3

\* Most characters in the stem of a file name.
MaxStem == 3

\* Most path segments of a URL handed to the validator.
MaxSegs == 4

\* Depth of the folder tree that is archived.
MaxDepth == 2

\* Option tokens of a download command, before the URL.
MaxParts == 3

\* ------------------------------------------------------ program constants
\* _update_progress / _handle_progress: "progress % 5 == 0".
ThrottleStep == 5
\* _monitor_download_process: stdout_chunks[-5:].
TailLen == 5

\* ------------------------------------------------------------ output lines
\* A line of the acquisition process, by what the monitors look at:
\*   utf8   line.decode() succeeds
\*   pct    the decoded line contains a '%' character
\*   num    the integer of the first "(\d+)%" match, NoNum when none matches
\*   fatal  the line matches one of the fatal-error patterns of the
\*          specification (no monitor looks at this)
NoNum == -1

Line(f, p, n, u) == [fatal |-> f, pct |-> p, num |-> n, utf8 |-> u]

PctLine(n) == Line(FALSE, TRUE, n, TRUE)

NoiseLine == Line(FALSE, FALSE, NoNum, TRUE)

FatalLine == Line(TRUE, FALSE, NoNum, TRUE)

BarePctLine == Line(FALSE, TRUE, NoNum, TRUE)

BadBytesLine == Line(FALSE, FALSE, NoNum, FALSE)

PctValues == {0, 5, 7, 105}

Lines == {NoiseLine, FatalLine, BarePctLine, BadBytesLine} \cup {PctLine(n) : n \in PctValues}

\* The output 1%,4%,5%,5%,9%,10%.
ExampleOutput == <<PctLine(1), PctLine(4), PctLine(5), PctLine(5), PctLine(9), PctLine(10)>>

\* -------------------------------------------------------------- helpers
Range(s) == {s[i] : i \in 1..Len(s)}

\* Python's s[-n:].
LastN(s, n) == IF Len(s) <= n THEN s ELSE SubSeq(s, Len(s) - n + 1, Len(s))

\* ------------------------------------------------------------ option maps
\* An option map is an insertion-ordered dict: a sequence of entries with
\* distinct keys.  A value is the bool True or a string.
\* "aac" is a key of option_map, "evil" is not.
OptKeys == {"aac", "evil"}

OptEntry(k, b) == [key |-> k, isbool |-> b, val |-> "x"]

OptEntries == {OptEntry(k, b) : k \in OptKeys, b \in BOOLEAN}

RECURSIVE SeqsUpTo(_, _)
SeqsUpTo(S, n) ==
  IF n = 0 THEN {<<>>}
  ELSE LET shorter == SeqsUpTo(S, n - 1)
       IN shorter \cup {Append(s, e) : s \in shorter, e \in S}

OptionMaps ==
  {o \in SeqsUpTo(OptEntries, MaxOpts) :
     \A i, j \in 1..Len(o) : i # j => o[i].key # o[j].key}

option_map ==
  ("aac" :> "--aac") @@ ("aac-type" :> "--aac-type") @@ ("alac-max" :> "--alac-max")
  @@ ("all-album" :> "--all-album") @@ ("atmos" :> "--atmos")
  @@ ("atmos-max" :> "--atmos-max") @@ ("debug" :> "--debug")
  @@ ("mv-audio-type" :> "--mv-audio-type") @@ ("mv-max" :> "--mv-max")
  @@ ("select" :> "--select") @@ ("song" :> "--song")

\* downloader.py:242 (it shadows the one imported from utils.py:137, which
\* has the same body): mapped keys only, a bool value gives the bare flag.
RECURSIVE build_apple_options(_)
build_apple_options(options) ==
  IF options = <<>> THEN <<>>
  ELSE LET e == Head(options)
           rest == build_apple_options(Tail(options))
       IN IF e.key \in DOMAIN option_map
          THEN IF e.isbool THEN <<option_map[e.key]>> \o rest
               ELSE <<option_map[e.key], e.val>> \o rest
          ELSE rest

\* "*options" of a dict: its keys, in order.
RECURSIVE DictKeys(_)
DictKeys(options) ==
  IF options = <<>> THEN <<>> ELSE <<Head(options).key>> \o DictKeys(Tail(options))

\* downloader.py:143-148 and 189-194.
apple_cmd(options) ==
  <<"DOWNLOADER_PATH">> \o build_apple_options(options) \o <<"--output", "output_dir", "url">>

\* downloader.py:37-42, run_apple_downloader: "*([] if not options else options)".
run_apple_downloader_cmd(options) ==
  <<"DOWNLOADER_PATH">> \o DictKeys(options) \o <<"--output", "output_dir", "url">>

\* ------------------------------------------------------------- monitors
\* downloader.py:100-103.  None is NoNum.
_parse_progress(line) == line.num

\* downloader.py:109, the throttle of _update_progress.
_update_progress_sends(progress) == progress % ThrottleStep = 0

\* downloader.py:79, "if progress and progress != last_progress".
MonitorUpdates(progress, last) == progress # NoNum /\ progress # 0 /\ progress # last

\* downloader.py:229, the throttle of _handle_progress.
_handle_progress_sends(progress) == progress % ThrottleStep = 0

\* ---------------------------------------------------------------- errors
NoError == [kind |-> "none", prefix |-> "", lines |-> <<>>]

Err(kind) == [kind |-> kind, prefix |-> "", lines |-> <<>>]

\* downloader.py:88: stderr.decode().strip() or "\n".join(stdout_chunks[-5:]).
monitor_error_output(stderrEmpty, stdout_chunks) ==
  IF ~stderrEmpty THEN Err("stderr")
  ELSE [kind |-> "tail", prefix |-> "", lines |-> LastN(stdout_chunks, TailLen)]

\* downloader.py:238-239: stderr.decode().strip() or "Unknown error", wrapped
\* in RuntimeError(f"Downloader failed: {error}").
_handle_progress_error(stderrEmpty) ==
  IF ~stderrEmpty THEN [kind |-> "stderr", prefix |-> "Downloader failed: ", lines |-> <<>>]
  ELSE [kind |-> "unknown", prefix |-> "Downloader failed: ", lines |-> <<>>]

\* A cleanup that leaves the workspace directory as it is.
leave_apple_files(exists) == exists

\* utils.py:131-132: the workspace directory after cleanup_apple_files.
cleanup_apple_files(exists) == FALSE

\* utils.py:53: the workspace directory after create_apple_directory.
create_apple_directory(exists) == TRUE

\* ------------------------------------------------------------ classification
\* A URL is https://music.apple.com/us/<kind>/<name>/123; a text is the
\* sequence of its words, so that Python's `in` on strings is containment of
\* a contiguous run of words.
Words(kind) == IF kind = "music-video" THEN <<"music", "video">> ELSE <<kind>>

\* utils.py:22: the kind segments validate_apple_url accepts.
Kinds == {"album", "song", "playlist", "music-video", "artist"}

\* Name segments: the slug of the content's title.
Names == {<<"plain">>, <<"top", "playlist", "hits">>, <<"the", "artist">>,
          <<"music", "video", "mix">>}

Urls == [kind : Kinds, name : Names]

UrlText(u) ==
  <<"https", "music", "apple", "com", "us">> \o Words(u.kind) \o u.name \o <<"123">>

\* Python's `pat in text`.
Contains(text, pat) ==
  \E i \in 1..(Len(text) - Len(pat) + 1) : SubSeq(text, i, i + Len(pat) - 1) = pat

\* The same checks with the playlist marker tested first.
playlist_first(u, n) ==
  IF Contains(UrlText(u), Words("playlist")) THEN "playlist"
  ELSE IF Contains(UrlText(u), Words("music-video")) THEN "video"
  ELSE IF Contains(UrlText(u), Words("artist")) THEN "artist"
  ELSE IF n > 1 THEN "album" ELSE "track"

\* apple.py:95-103.
_determine_content_type(u, n) ==
  IF Contains(UrlText(u), Words("music-video")) THEN "video"
  ELSE IF Contains(UrlText(u), Words("playlist")) THEN "playlist"
  ELSE IF Contains(UrlText(u), Words("artist")) THEN "artist"
  ELSE IF n > 1 THEN "album" ELSE "track"

\* ----------------------------------------------------------------- state
VARIABLES
  entry,          \* the entry point this job runs through
  url_ok,         \* validate_apple_url(url)
  options,        \* the option map handed to the entry point
  script,         \* "free": any output up to MaxLines; "example": ExampleOutput
  pc,             \* position in the entry point
  result,         \* "running", "returned" or "raised": how the entry point ended
  failed,         \* the job took a failure path (invalid URL or an exception)
  error,          \* the error of the failure path, NoError when none
  status_msg,     \* last text edited into user['bot_msg']
  workspace,      \* the per-user directory exists on disk (utils.py:48-52)
  created,        \* create_apple_directory has run in this job
  cleanups,       \* number of calls of cleanup_apple_files in this job
  cmd,            \* argument vector of the spawned process, <<>> before
  process,        \* "none", "running" (spawned, not waited on) or "reaped"
  returncode,     \* exit status once reaped, NoCode before
  stderr_empty,   \* stderr.decode().strip() is empty
  read,           \* the lines the monitor has read so far
  stdout_chunks,  \* _monitor_download_process: the decoded lines kept
  last_progress,  \* _monitor_download_process: last_progress
  notified,       \* progress values edited into the status message, in order
  late_progress,  \* a progress value was notified after a fatal line was read
  items,          \* number of media items _process_content found
  extracted,      \* metadata extraction has run
  classified,     \* _determine_content_type has run
  delivered       \* _handle_upload has run to its end

inputs == <<entry, url_ok, options, script>>

control == <<pc, result, failed, error, status_msg>>

disk == <<workspace, created, cleanups>>

proc == <<cmd, process, returncode, stderr_empty>>

monitor == <<read, stdout_chunks, last_progress, notified, late_progress>>

pipeline == <<items, extracted, classified, delivered>>

\* The two pipes between the acquisition process and a monitor
\* (downloader.py:50-51 / 157-158: stdout=PIPE, stderr=PIPE).
VARIABLES
  p_mon,          \* the monitor: "idle", "readline", "communicate", "returned"
  p_proc,         \* the process: "idle", "running", "exited"
  p_want,         \* the write the process is in: "none", "out" or "err"
  out_todo,       \* lines the process still prints on standard output
  err_todo,       \* chunks the process still writes to standard error
  out_pipe,       \* lines written to standard output and not yet read
  err_pipe,       \* chunks written to standard error and not yet read
  out_open        \* the process has not closed its standard output

pipes == <<p_mon, p_proc, p_want, out_todo, err_todo, out_pipe, err_pipe, out_open>>

\* The command handler around the job (download.py:40-54).
VARIABLES
  dt_pc,        \* position of download_track
  sent_msgs,    \* messages download_track has sent after the status message
  bot_msg,      \* user['bot_msg'], the status message: "shown" or "deleted"
  spam_held     \* the user's anti-spam entry is taken

chat == <<dt_pc, sent_msgs, bot_msg, spam_held>>

\* Classification and the delivery handlers (apple.py:88-147, uploader.py).
VARIABLES
  url,            \* the job's URL: its kind segment and its name segment
  Config,         \* the settings the delivery handlers read
  link_options,   \* bot_set.link_options
  metadata,       \* the key under which the bundle lists its members
  content_type,   \* what _determine_content_type returned, "none" before
  h_pc,           \* the delivery handler: "idle", "fanout", "returned", "raised"
  h_error,        \* the exception that left the handler, "none" when none
  fan_k,          \* fan-out: the child delivered next
  sent_items,     \* items sent to the chat as audio or video
  removed_items,  \* items whose file the handler removed with os.remove
  folder_removed, \* the handler removed the bundle's folder with shutil.rmtree
  archive,        \* the zip archive: "none", "created", "sent" or "removed"
  rclone_result,  \* rclone_upload: "none", "unset", "failed", "linked" or "skipped"
  notice          \* the link notice sent: "none", or the direct link in it

delivery == <<url, Config, link_options, metadata, content_type, h_pc, h_error, fan_k,
              sent_items, removed_items, folder_removed, archive, rclone_result, notice>>

\* One call of a function of the provider on its own: the argument, the value
\* returned, and whether the call has been made.
VARIABLES
  call_arg,
  call_ret,
  call_done

call == <<call_arg, call_ret, call_done>>

\* The directories and files under Config.LOCAL_STORAGE, and two jobs working
\* on them.
VARIABLES
  storage,   \* Config.LOCAL_STORAGE, as a path
  fs,        \* the paths that exist, each with <<"dir">> or the file's content
  j_entry,   \* the entry point each job came in by
  j_user,    \* the user id of each job
  j_pc,      \* each job's position
  actor,     \* the job that took the last step, 0 before the first
  touched    \* the paths the last step created, changed or removed

files == <<storage, fs, j_entry, j_user, j_pc, actor, touched>>

rest == <<call, files>>

\* What the actions of the job leave alone.
aside == <<pipes, chat, delivery, rest>>

job == <<inputs, control, disk, proc, monitor, pipeline>>

vars == <<job, aside>>

NoCode == -1

ExitCodes == {0, 1}

HandlerEntries == {"handle_apple_download", "start_apple"}

Entries == HandlerEntries \cup {"process"}

\* No process is attached to the pipes.
PipesIdle ==
  /\ p_mon = "idle"
  /\ p_proc = "idle"
  /\ p_want = "none"
  /\ out_todo = 0
  /\ err_todo = 0
  /\ out_pipe = 0
  /\ err_pipe = 0
  /\ out_open = FALSE

\* The settings: Config.UPLOAD_MODE (any other value than the two the handlers
\* test stands as "Local"), the three zip flags, and whether RCLONE_DEST and
\* INDEX_LINK are set.
Configs ==
  [UPLOAD_MODE : {"Telegram", "Rclone", "Local"},
   ALBUM_ZIP : BOOLEAN, PLAYLIST_ZIP : BOOLEAN, ARTIST_ZIP : BOOLEAN,
   RCLONE_DEST : BOOLEAN, INDEX_LINK : BOOLEAN]

LinkOptions == {"RCLONE", "Index", "Both"}

\* No classification and no delivery handler has run.
NothingDelivered ==
  /\ content_type = "none"
  /\ h_pc = "idle"
  /\ h_error = "none"
  /\ fan_k = 0
  /\ sent_items = {}
  /\ removed_items = {}
  /\ folder_removed = FALSE
  /\ archive = "none"
  /\ rclone_result = "none"
  /\ notice = "none"

\* The job model leaves the delivery settings at one value.
DeliveryIdle ==
  /\ url = [kind |-> "album", name |-> <<"plain">>]
  /\ Config = [UPLOAD_MODE |-> "Telegram", ALBUM_ZIP |-> FALSE, PLAYLIST_ZIP |-> FALSE,
               ARTIST_ZIP |-> FALSE, RCLONE_DEST |-> FALSE, INDEX_LINK |-> FALSE]
  /\ link_options = "RCLONE"
  /\ metadata = {"items"}
  /\ NothingDelivered

\* No function is called on its own.
CallIdle ==
  /\ call_arg = <<>>
  /\ call_ret = <<>>
  /\ call_done = FALSE

\* The storage root alone, and no job working on it.
FilesIdle ==
  /\ storage = <<"/", "data">>
  /\ fs = (<<"/">> :> <<"dir">>) @@ (<<"/", "data">> :> <<"dir">>)
  /\ j_entry = <<>>
  /\ j_user = <<>>
  /\ j_pc = <<>>
  /\ actor = 0
  /\ touched = {}

RestIdle == CallIdle /\ FilesIdle

\* download.py:40-47: the anti-spam entry is taken, the status message is sent
\* and start_link is awaited.  Only handle_apple_download is routed to by
\* start_link (download.py:105-106).
ChatStart ==
  /\ dt_pc = IF entry = "handle_apple_download" THEN "start_link" ELSE "none"
  /\ sent_msgs = <<>>
  /\ bot_msg = "shown"
  /\ spam_held = (entry = "handle_apple_download")

Init ==
  /\ entry \in Entries
  /\ url_ok \in BOOLEAN
  /\ options \in OptionMaps
  /\ script \in {"free", "example"}
  /\ pc = IF entry = "process" THEN "p_validate" ELSE "h_validate"
  /\ result = "running"
  /\ failed = FALSE
  /\ error = NoError
  /\ status_msg = "starting"
  /\ workspace \in BOOLEAN   \* the directory may be left from an earlier job
  /\ created = FALSE
  /\ cleanups = 0
  /\ cmd = <<>>
  /\ process = "none"
  /\ returncode = NoCode
  /\ stderr_empty = TRUE
  /\ read = <<>>
  /\ stdout_chunks = <<>>
  /\ last_progress = 0
  /\ notified = <<>>
  /\ late_progress = FALSE
  /\ items = 0
  /\ extracted = FALSE
  /\ classified = FALSE
  /\ delivered = FALSE
  /\ PipesIdle
  /\ ChatStart
  /\ DeliveryIdle
  /\ RestIdle

\* The lines the acquisition process can print next.
NextLines ==
  IF script = "example"
  THEN IF Len(read) < Len(ExampleOutput) THEN {ExampleOutput[Len(read) + 1]} ELSE {}
  ELSE IF Len(read) < MaxLines THEN Lines ELSE {}

\* The process can close its standard output now.
CanClose == script = "free" \/ Len(read) = Len(ExampleOutput)

FatalRead == \E i \in 1..Len(read) : read[i].fatal

\* The entry point ends: it returns, or the exception leaves it.
Finish(how) == pc' = "done" /\ result' = how

\* An exception inside the try block: control goes to the except clause.
Raise(h, e) == pc' = h /\ error' = e /\ failed' = TRUE /\ result' = result

\* A validation whose failure does not end the entry point: control goes on to
\* the step after it.
no_return(next) == pc' = next /\ result' = result

\* downloader.py:130 / 180, apple.py:36: the `return` after the invalid-URL
\* edit; next is the step that follows a passed validation.
reject(next) == Finish("returned")

\* ------------------------------------------ handle_apple_download, start_apple
\* downloader.py:128-130 / 178-180.
handle_apple_download_validate ==
  /\ pc = "h_validate"
  /\ IF url_ok
     THEN /\ pc' = "h_deps"
          /\ UNCHANGED <<result, failed, error, status_msg>>
     ELSE \E sent \in BOOLEAN :
            IF sent
            THEN /\ status_msg' = "invalid"
                 /\ failed' = TRUE
                 /\ reject("h_deps")
                 /\ UNCHANGED error
            ELSE /\ Raise("h_except", Err("edit_message"))
                 /\ UNCHANGED status_msg
  /\ UNCHANGED <<inputs, aside, disk, proc, monitor, pipeline>>

\* downloader.py:133 / 183: verify_apple_dependencies raises when a tool is missing.
handle_apple_download_deps ==
  /\ pc = "h_deps"
  /\ \E present \in BOOLEAN :
       IF present
       THEN pc' = "h_mkdir" /\ UNCHANGED <<result, failed, error>>
       ELSE Raise("h_except", Err("missing_tools"))
  /\ UNCHANGED <<status_msg, inputs, aside, disk, proc, monitor, pipeline>>

\* downloader.py:140 / 186.
handle_apple_download_mkdir ==
  /\ pc = "h_mkdir"
  /\ workspace' = create_apple_directory(workspace)
  /\ created' = TRUE
  /\ pc' = "h_spawn"
  /\ UNCHANGED <<result, failed, error, status_msg, cleanups, inputs, aside, proc, monitor, pipeline>>

\* downloader.py:143-159 / 189-204: create_subprocess_exec raises when the
\* binary cannot be executed.
handle_apple_download_spawn ==
  /\ pc = "h_spawn"
  /\ \E spawned \in BOOLEAN :
       IF spawned
       THEN /\ cmd' = apple_cmd(options)
            /\ process' = "running"
            /\ pc' = "h_monitor"
            /\ UNCHANGED <<result, failed, error>>
       ELSE /\ Raise("h_except", Err("spawn"))
            /\ UNCHANGED <<cmd, process>>
  /\ UNCHANGED <<status_msg, returncode, stderr_empty, inputs, aside, disk, monitor, pipeline>>

\* downloader.py:222-233, one turn of the loop of _handle_progress on a line.
_handle_progress_line ==
  /\ pc = "h_monitor"
  /\ \E line \in NextLines :
       /\ read' = Append(read, line)
       /\ IF ~line.utf8
          THEN /\ Raise("h_except", Err("decode"))
               /\ UNCHANGED <<status_msg, notified, late_progress>>
          ELSE IF ~line.pct
          THEN UNCHANGED <<control, notified, late_progress>>
          ELSE IF _parse_progress(line) = NoNum
          THEN \* re.search(...) is None: None.group(1) raises AttributeError
               /\ Raise("h_except", Err("attribute"))
               /\ UNCHANGED <<status_msg, notified, late_progress>>
          ELSE IF ~_handle_progress_sends(_parse_progress(line))
          THEN UNCHANGED <<control, notified, late_progress>>
          ELSE \E sent \in BOOLEAN :
                 IF sent
                 THEN /\ notified' = Append(notified, _parse_progress(line))
                      /\ late_progress' = (late_progress \/ FatalRead)
                      /\ status_msg' = "progress"
                      /\ UNCHANGED <<pc, result, failed, error>>
                 ELSE /\ Raise("h_except", Err("edit_message"))
                      /\ UNCHANGED <<status_msg, notified, late_progress>>
  /\ UNCHANGED <<stdout_chunks, last_progress, inputs, aside, disk, proc, pipeline>>

\* downloader.py:223-224 and 235-239: end of output, communicate(), exit status.
_handle_progress_eof ==
  /\ pc = "h_monitor"
  /\ CanClose
  /\ \E rc \in ExitCodes, quiet \in BOOLEAN :
       /\ process' = "reaped"
       /\ returncode' = rc
       /\ stderr_empty' = quiet
       /\ IF rc # 0
          THEN Raise("h_except", _handle_progress_error(quiet))
          ELSE pc' = "h_cleanup" /\ UNCHANGED <<result, failed, error>>
  /\ UNCHANGED <<status_msg, cmd, inputs, aside, disk, monitor, pipeline>>

\* downloader.py:165 / 210.
handle_apple_download_cleanup ==
  /\ pc = "h_cleanup"
  /\ workspace' = cleanup_apple_files(workspace)
  /\ cleanups' = cleanups + 1
  /\ pc' = "h_report"
  /\ UNCHANGED <<result, failed, error, status_msg, created, inputs, aside, proc, monitor, pipeline>>

\* downloader.py:166 / 211.
handle_apple_download_report ==
  /\ pc = "h_report"
  /\ \E sent \in BOOLEAN :
       IF sent
       THEN /\ status_msg' = "completed"
            /\ Finish("returned")
            /\ UNCHANGED <<failed, error>>
       ELSE /\ Raise("h_except", Err("edit_message"))
            /\ UNCHANGED status_msg
  /\ UNCHANGED <<inputs, aside, disk, proc, monitor, pipeline>>

\* downloader.py:168-171 / 213-216: report the error, then clean up.  When
\* edit_message raises here the exception leaves the entry point.
handle_apple_download_except ==
  /\ pc = "h_except"
  /\ \E sent \in BOOLEAN :
       IF sent
       THEN /\ status_msg' = "error"
            /\ workspace' = cleanup_apple_files(workspace)
            /\ cleanups' = cleanups + 1
            /\ Finish("returned")
       ELSE /\ Finish("raised")
            /\ UNCHANGED <<status_msg, workspace, cleanups>>
  /\ UNCHANGED <<failed, error, created, inputs, aside, proc, monitor, pipeline>>

\* ------------------------------------------------------ AppleMusicCore.process
\* apple.py:34-36.
process_validate ==
  /\ pc = "p_validate"
  /\ IF url_ok
     THEN /\ pc' = "p_mkdir"
          /\ UNCHANGED <<result, failed, error, status_msg>>
     ELSE \E sent \in BOOLEAN :
            IF sent
            THEN /\ status_msg' = "invalid"
                 /\ failed' = TRUE
                 /\ reject("p_mkdir")
                 /\ UNCHANGED error
            ELSE /\ Raise("p_except", Err("edit_message"))
                 /\ UNCHANGED status_msg
  /\ UNCHANGED <<inputs, aside, disk, proc, monitor, pipeline>>

\* apple.py:39.
process_mkdir ==
  /\ pc = "p_mkdir"
  /\ workspace' = create_apple_directory(workspace)
  /\ created' = TRUE
  /\ pc' = "p_run"
  /\ UNCHANGED <<result, failed, error, status_msg, cleanups, inputs, aside, proc, monitor, pipeline>>

\* apple.py:43-51 with downloader.py:28-57: the binary is missing, the spawn
\* raises, or the process runs.  A failure result becomes RuntimeError at
\* apple.py:51.
run_apple_downloader ==
  /\ pc = "p_run"
  /\ \E outcome \in {"missing", "spawn_error", "spawned"} :
       IF outcome = "spawned"
       THEN /\ cmd' = run_apple_downloader_cmd(options)
            /\ process' = "running"
            /\ pc' = "p_monitor"
            /\ UNCHANGED <<result, failed, error>>
       ELSE /\ Raise("p_except", Err(outcome))
            /\ UNCHANGED <<cmd, process>>
  /\ UNCHANGED <<status_msg, returncode, stderr_empty, inputs, aside, disk, monitor, pipeline>>

\* downloader.py:69-81 and 95-97, one turn of the loop of
\* _monitor_download_process on a line.  _update_progress (106-115) swallows
\* what edit_message raises.
_monitor_download_process_line ==
  /\ pc = "p_monitor"
  /\ \E line \in NextLines :
       /\ read' = Append(read, line)
       /\ IF ~line.utf8
          THEN /\ Raise("p_except", Err("decode"))
               /\ UNCHANGED <<status_msg, stdout_chunks, last_progress, notified, late_progress>>
          ELSE /\ stdout_chunks' = Append(stdout_chunks, line)
               /\ UNCHANGED <<pc, result, failed, error>>
               /\ IF ~MonitorUpdates(_parse_progress(line), last_progress)
                  THEN UNCHANGED <<status_msg, last_progress, notified, late_progress>>
                  ELSE /\ last_progress' = _parse_progress(line)
                       /\ IF ~_update_progress_sends(_parse_progress(line))
                          THEN UNCHANGED <<status_msg, notified, late_progress>>
                          ELSE \E sent \in BOOLEAN :
                                 IF sent
                                 THEN /\ notified' = Append(notified, _parse_progress(line))
                                      /\ late_progress' = (late_progress \/ FatalRead)
                                      /\ status_msg' = "progress"
                                 ELSE UNCHANGED <<status_msg, notified, late_progress>>
  /\ UNCHANGED <<inputs, aside, disk, proc, pipeline>>

\* downloader.py:71-72 and 83-93: end of output, communicate(), wait().
_monitor_download_process_eof ==
  /\ pc = "p_monitor"
  /\ CanClose
  /\ \E rc \in ExitCodes, quiet \in BOOLEAN :
       /\ process' = "reaped"
       /\ returncode' = rc
       /\ stderr_empty' = quiet
       /\ IF rc # 0
          THEN Raise("p_except", monitor_error_output(quiet, stdout_chunks))
          ELSE pc' = "p_content" /\ UNCHANGED <<result, failed, error>>
  /\ UNCHANGED <<status_msg, cmd, inputs, aside, disk, monitor, pipeline>>

\* apple.py:54 with 68-93: _process_content extracts the metadata of every
\* media file, raises ValueError when none is left, and classifies.
process_content ==
  /\ pc = "p_content"
  /\ \E n \in 0..MaxItems :
       /\ items' = n
       /\ extracted' = TRUE
       /\ IF n = 0
          THEN /\ Raise("p_except", Err("no_media"))
               /\ UNCHANGED classified
          ELSE /\ classified' = TRUE
               /\ pc' = "p_upload"
               /\ UNCHANGED <<result, failed, error>>
  /\ UNCHANGED <<status_msg, delivered, inputs, aside, disk, proc, monitor>>

\* apple.py:57: _handle_upload delivers, or the handler raises.
process_upload ==
  /\ pc = "p_upload"
  /\ \E ok \in BOOLEAN :
       IF ok
       THEN /\ delivered' = TRUE
            /\ pc' = "p_cleanup"
            /\ UNCHANGED <<result, failed, error>>
       ELSE /\ Raise("p_except", Err("delivery"))
            /\ UNCHANGED delivered
  /\ UNCHANGED <<status_msg, items, extracted, classified, inputs, aside, disk, proc, monitor>>

\* apple.py:60.
process_cleanup ==
  /\ pc = "p_cleanup"
  /\ workspace' = cleanup_apple_files(workspace)
  /\ cleanups' = cleanups + 1
  /\ pc' = "p_complete"
  /\ UNCHANGED <<result, failed, error, status_msg, created, inputs, aside, proc, monitor, pipeline>>

\* apple.py:61 with 149-157.
process_complete ==
  /\ pc = "p_complete"
  /\ \E sent \in BOOLEAN :
       IF sent
       THEN /\ status_msg' = "completed"
            /\ Finish("returned")
            /\ UNCHANGED <<failed, error>>
       ELSE /\ Raise("p_except", Err("edit_message"))
            /\ UNCHANGED status_msg
  /\ UNCHANGED <<inputs, aside, disk, proc, monitor, pipeline>>

\* apple.py:63-66: clean up, then report the error.  When edit_message raises
\* here the exception leaves the entry point.
process_except ==
  /\ pc = "p_except"
  /\ workspace' = cleanup_apple_files(workspace)
  /\ cleanups' = cleanups + 1
  /\ \E sent \in BOOLEAN :
       IF sent
       THEN status_msg' = "error" /\ Finish("returned")
       ELSE Finish("raised") /\ UNCHANGED status_msg
  /\ UNCHANGED <<failed, error, created, inputs, aside, proc, monitor, pipeline>>

\* --------------------------------------------------------------- download_track
\* download.py:47-48: start_link has returned or raised; on a return the
\* task-completed message is sent.
download_track_completed ==
  /\ dt_pc = "start_link"
  /\ pc = "done"
  /\ IF result = "raised"
     THEN dt_pc' = "except" /\ UNCHANGED sent_msgs
     ELSE \E sent \in BOOLEAN :
            IF sent
            THEN dt_pc' = "delete" /\ sent_msgs' = Append(sent_msgs, "TASK_COMPLETED")
            ELSE dt_pc' = "except" /\ UNCHANGED sent_msgs
  /\ UNCHANGED <<bot_msg, spam_held, pipes, delivery, job, rest>>

\* download.py:49-51: the except clause sends the failure message.
download_track_except ==
  /\ dt_pc = "except"
  /\ \E sent \in BOOLEAN :
       IF sent
       THEN dt_pc' = "delete" /\ sent_msgs' = Append(sent_msgs, "Download failed")
       ELSE dt_pc' = "raised" /\ UNCHANGED sent_msgs
  /\ UNCHANGED <<bot_msg, spam_held, pipes, delivery, job, rest>>

\* A deletion that leaves the message where it is.
keep_messages(m) == m

\* The status message after c.delete_messages succeeded.
delete_messages(m) == "deleted"

\* download.py:52: the status message is deleted.
download_track_delete ==
  /\ dt_pc = "delete"
  /\ \E ok \in BOOLEAN :
       IF ok
       THEN dt_pc' = "cleanup" /\ bot_msg' = delete_messages(bot_msg)
       ELSE dt_pc' = "raised" /\ UNCHANGED bot_msg
  /\ UNCHANGED <<sent_msgs, spam_held, pipes, delivery, job, rest>>

\* download.py:53: cleanup(user).
download_track_cleanup ==
  /\ dt_pc = "cleanup"
  /\ \E ok \in BOOLEAN : dt_pc' = IF ok THEN "release" ELSE "raised"
  /\ UNCHANGED <<sent_msgs, bot_msg, spam_held, pipes, delivery, job, rest>>

\* download.py:54: antiSpam(user, chat, True) releases the entry.
download_track_release ==
  /\ dt_pc = "release"
  /\ dt_pc' = "end"
  /\ spam_held' = FALSE
  /\ UNCHANGED <<sent_msgs, bot_msg, pipes, delivery, job, rest>>

Next ==
  \/ download_track_completed
  \/ download_track_except
  \/ download_track_delete
  \/ download_track_cleanup
  \/ download_track_release
  \/ handle_apple_download_validate
  \/ handle_apple_download_deps
  \/ handle_apple_download_mkdir
  \/ handle_apple_download_spawn
  \/ _handle_progress_line
  \/ _handle_progress_eof
  \/ handle_apple_download_cleanup
  \/ handle_apple_download_report
  \/ handle_apple_download_except
  \/ process_validate
  \/ process_mkdir
  \/ run_apple_downloader
  \/ _monitor_download_process_line
  \/ _monitor_download_process_eof
  \/ process_content
  \/ process_upload
  \/ process_cleanup
  \/ process_complete
  \/ process_except

\* --------------------------------------------------------------- delivery
\* Classification and the delivery handlers in detail.  A handler is run by
\* AppleMusicCore.process on the bundle _process_content built, or is called
\* directly ("deliver") with a bundle of the caller's making.

ContentTypes == {"track", "video", "album", "playlist", "artist"}

BundleTypes == {"album", "playlist", "artist"}

\* uploader.py:129, 190, 245: the zip flag a bundle handler reads.
ZipFlag(t) ==
  IF t = "album" THEN Config.ALBUM_ZIP
  ELSE IF t = "playlist" THEN Config.PLAYLIST_ZIP
  ELSE Config.ARTIST_ZIP

\* uploader.py:153, 213, 269: the key a bundle handler reads its members from.
ChildrenKey(t) == IF t = "artist" THEN "albums" ELSE "tracks"

\* uploader.py:288-324.  exit is the exit status of `rclone link`.
rclone_upload(exit) ==
  IF ~Config.RCLONE_DEST
  THEN [result |-> "unset", rclone_link |-> "None", index_link |-> "None"]
  ELSE [result |-> IF link_options \in {"RCLONE", "Both"}
                   THEN (IF exit = 0 THEN "linked" ELSE "failed")
                   ELSE "skipped",
        rclone_link |-> IF link_options \in {"RCLONE", "Both"} /\ exit = 0
                        THEN "link" ELSE "None",
        index_link |-> IF link_options \in {"Index", "Both"} /\ Config.INDEX_LINK
                       THEN "index" ELSE "None"]

Outcome(r, s, d, l, n) ==
  [raised |-> r, sent |-> s, removed |-> d, rclone |-> l, notice |-> n]

\* uploader.py:14-65 (and 67-113): what the handler does with item k.  ok says
\* whether send_message succeeds.
track_upload(k, ok, exit) ==
  IF Config.UPLOAD_MODE = "Telegram"
  THEN IF ok THEN Outcome(FALSE, {k}, {k}, "none", "none")
             ELSE Outcome(TRUE, {}, {}, "none", "none")
  ELSE IF Config.UPLOAD_MODE = "Rclone"
  THEN LET links == rclone_upload(exit) IN
       IF ok THEN Outcome(FALSE, {}, {k}, links.result, links.rclone_link)
             ELSE Outcome(TRUE, {}, {}, links.result, "none")
  ELSE Outcome(FALSE, {}, {k}, "none", "none")

\* uploader.py:115-174 called on album k of an artist, under Telegram: with
\* ALBUM_ZIP the archive is created and the await fails; without it the
\* album's tracks are sent.
album_child(k, ok) ==
  IF Config.ALBUM_ZIP \/ ~ok
  THEN Outcome(TRUE, {}, {}, "none", "none")
  ELSE Outcome(FALSE, {k}, {k}, "none", "none")

\* The state the job is in when classification starts.
JobDelivering ==
  /\ entry \in {"process", "deliver"}
  /\ url_ok = TRUE
  /\ options = <<>>
  /\ script = "free"
  /\ pc = IF entry = "process" THEN "p_content" ELSE "deliver"
  /\ result = "running"
  /\ failed = FALSE
  /\ error = NoError
  /\ status_msg = "starting"
  /\ workspace = TRUE
  /\ created = TRUE
  /\ cleanups = 0
  /\ cmd = run_apple_downloader_cmd(options)
  /\ process = "reaped"
  /\ returncode = 0
  /\ stderr_empty = TRUE
  /\ read = <<>>
  /\ stdout_chunks = <<>>
  /\ last_progress = 0
  /\ notified = <<>>
  /\ late_progress = FALSE
  /\ items \in IF entry = "process" THEN {0} ELSE 1..MaxItems
  /\ extracted = (entry = "deliver")
  /\ classified = FALSE
  /\ delivered = FALSE

InitDeliver ==
  /\ JobDelivering
  /\ PipesIdle
  /\ ChatStart
  /\ RestIdle
  /\ Config \in Configs
  /\ link_options \in LinkOptions
  /\ url \in IF entry = "process" THEN Urls ELSE {[kind |-> "album", name |-> <<"plain">>]}
  /\ content_type \in IF entry = "process" THEN {"none"} ELSE ContentTypes
  /\ metadata \in IF entry = "process" THEN {{"items"}}
                  ELSE {{"items"}, {ChildrenKey(content_type)}}
  /\ h_pc = "idle"
  /\ h_error = "none"
  /\ fan_k = 0
  /\ sent_items = {}
  /\ removed_items = {}
  /\ folder_removed = FALSE
  /\ archive = "none"
  /\ rclone_result = "none"
  /\ notice = "none"

\* A test that never finds the list empty.
never_empty(n) == FALSE

\* apple.py:85: `if not items` on the list of n media items.
no_items(n) == n = 0

\* apple.py:54 with 68-103: the media files are listed and the content is
\* classified; no media file raises ValueError.
_process_content ==
  /\ pc = "p_content"
  /\ \E n \in 0..MaxItems :
       /\ items' = n
       /\ extracted' = TRUE
       /\ IF no_items(n)
          THEN /\ Raise("p_except", Err("no_media"))
               /\ UNCHANGED <<classified, content_type>>
          ELSE /\ classified' = TRUE
               /\ content_type' = _determine_content_type(url, n)
               /\ pc' = "p_upload"
               /\ UNCHANGED <<result, failed, error>>
  /\ UNCHANGED <<status_msg, delivered, inputs, disk, proc, monitor, pipes, chat, rest,
                 url, Config, link_options, metadata, h_pc, h_error, fan_k, sent_items,
                 removed_items, folder_removed, archive, rclone_result, notice>>

\* apple.py:109-122: the handler of type t is called.
Dispatched(t) ==
  /\ pc \in {"p_upload", "deliver"}
  /\ h_pc = "idle"
  /\ content_type = t

\* uploader.py:14-65 / 67-113 on the first item (apple.py:127, 132).
SingleUpload(t) ==
  /\ Dispatched(t)
  /\ \E ok \in BOOLEAN, exit \in ExitCodes :
       LET r == track_upload(1, ok, exit) IN
       /\ sent_items' = r.sent
       /\ removed_items' = r.removed
       /\ rclone_result' = r.rclone
       /\ notice' = r.notice
       /\ h_pc' = IF r.raised THEN "raised" ELSE "returned"
       /\ h_error' = IF r.raised THEN "send" ELSE "none"
  /\ UNCHANGED <<url, Config, link_options, metadata, content_type, fan_k,
                 folder_removed, archive, job, pipes, chat, rest>>

_upload_track == SingleUpload("track")

_upload_video == SingleUpload("video")

\* uploader.py:115-174 / 176-229 / 231-286 up to the fan-out loop.
BundleUpload(t) ==
  /\ Dispatched(t)
  /\ IF Config.UPLOAD_MODE = "Telegram" /\ ZipFlag(t)
     THEN \* create_apple_zip is a plain function: awaiting its result raises
          \* TypeError once the archive is written.
          /\ \E zipped \in BOOLEAN :
               /\ archive' = IF zipped THEN "created" ELSE "none"
               /\ h_error' = IF zipped THEN "TypeError" ELSE "zip"
          /\ h_pc' = "raised"
          /\ UNCHANGED <<fan_k, folder_removed, rclone_result, notice>>
     ELSE IF Config.UPLOAD_MODE = "Telegram"
     THEN /\ IF ChildrenKey(t) \in metadata
             THEN h_pc' = "fanout" /\ fan_k' = 1 /\ h_error' = "none"
             ELSE h_pc' = "raised" /\ fan_k' = fan_k /\ h_error' = "KeyError"
          /\ UNCHANGED <<folder_removed, archive, rclone_result, notice>>
     ELSE IF Config.UPLOAD_MODE = "Rclone"
     THEN /\ \E ok \in BOOLEAN, exit \in ExitCodes :
               LET links == rclone_upload(exit) IN
               /\ rclone_result' = links.result
               /\ notice' = IF ok THEN links.rclone_link ELSE "none"
               /\ folder_removed' = ok
               /\ h_pc' = IF ok THEN "returned" ELSE "raised"
               /\ h_error' = IF ok THEN "none" ELSE "send"
          /\ UNCHANGED <<fan_k, archive>>
     ELSE /\ folder_removed' = TRUE
          /\ h_pc' = "returned"
          /\ UNCHANGED <<h_error, fan_k, archive, rclone_result, notice>>
  /\ UNCHANGED <<url, Config, link_options, metadata, content_type, sent_items,
                 removed_items, job, pipes, chat, rest>>

_upload_album == BundleUpload("album")

_upload_playlist == BundleUpload("playlist")

_upload_artist == BundleUpload("artist")

\* A loop that goes on to the next child whatever happened to this one.
fanout_isolated(k, raised) == [h_pc |-> "fanout", fan_k |-> k + 1]

\* uploader.py:153-154: the loop has no try; an exception of a child leaves it.
fanout_after(k, raised) ==
  IF raised THEN [h_pc |-> "raised", fan_k |-> k]
  ELSE [h_pc |-> "fanout", fan_k |-> k + 1]

\* uploader.py:153-154 / 213-214 / 269-270: one turn of the fan-out loop.
fanout_child ==
  /\ h_pc = "fanout"
  /\ fan_k <= items
  /\ \E ok \in BOOLEAN, exit \in ExitCodes :
       LET r == IF content_type = "artist" THEN album_child(fan_k, ok)
                ELSE track_upload(fan_k, ok, exit)
           after == fanout_after(fan_k, r.raised)
       IN /\ sent_items' = sent_items \cup r.sent
          /\ removed_items' = removed_items \cup r.removed
          /\ archive' = IF content_type = "artist" /\ Config.ALBUM_ZIP
                        THEN "created" ELSE archive
          /\ h_pc' = after.h_pc
          /\ fan_k' = after.fan_k
          /\ h_error' = IF r.raised THEN "child" ELSE h_error
  /\ UNCHANGED <<url, Config, link_options, metadata, content_type, folder_removed,
                 rclone_result, notice, job, pipes, chat, rest>>

\* uploader.py:174 / 229 / 286 after the loop.
fanout_end ==
  /\ h_pc = "fanout"
  /\ fan_k > items
  /\ folder_removed' = TRUE
  /\ h_pc' = "returned"
  /\ UNCHANGED <<url, Config, link_options, metadata, content_type, h_error, fan_k,
                 sent_items, removed_items, archive, rclone_result, notice, job, pipes,
                 chat, rest>>

\* apple.py:57: _handle_upload returns, or the handler's exception reaches the
\* except clause of process.
_handle_upload ==
  /\ pc = "p_upload"
  /\ h_pc \in {"returned", "raised"}
  /\ IF h_pc = "returned"
     THEN /\ delivered' = TRUE
          /\ pc' = "p_cleanup"
          /\ UNCHANGED <<result, failed, error>>
     ELSE /\ Raise("p_except", Err("delivery"))
          /\ UNCHANGED delivered
  /\ UNCHANGED <<status_msg, items, extracted, classified, inputs, aside, disk, proc,
                 monitor>>

NextDeliver ==
  \/ _process_content
  \/ _upload_track
  \/ _upload_video
  \/ _upload_album
  \/ _upload_playlist
  \/ _upload_artist
  \/ fanout_child
  \/ fanout_end
  \/ _handle_upload
  \/ process_cleanup
  \/ process_complete
  \/ process_except

SpecDeliver == InitDeliver /\ [][NextDeliver]_vars

\* ------------------------------------------------------------------ pipes
\* The acquisition process and a monitor over bounded pipes.  Both monitors
\* read standard output line by line until it is closed and only then call
\* communicate(), which reads what is left of both pipes and waits for the
\* exit (downloader.py:69-85 and 221-236).  Nothing reads standard error
\* before that.

\* The job at the start of monitoring.
JobMonitoring ==
  /\ entry \in Entries
  /\ url_ok = TRUE
  /\ options = <<>>
  /\ script = "free"
  /\ pc = IF entry = "process" THEN "p_monitor" ELSE "h_monitor"
  /\ result = "running"
  /\ failed = FALSE
  /\ error = NoError
  /\ status_msg = "starting"
  /\ workspace = TRUE
  /\ created = TRUE
  /\ cleanups = 0
  /\ cmd = IF entry = "process" THEN run_apple_downloader_cmd(options) ELSE apple_cmd(options)
  /\ process = "running"
  /\ returncode = NoCode
  /\ stderr_empty = TRUE
  /\ read = <<>>
  /\ stdout_chunks = <<>>
  /\ last_progress = 0
  /\ notified = <<>>
  /\ late_progress = FALSE
  /\ items = 0
  /\ extracted = FALSE
  /\ classified = FALSE
  /\ delivered = FALSE

InitPipes ==
  /\ JobMonitoring
  /\ ChatStart
  /\ DeliveryIdle
  /\ RestIdle
  /\ p_mon = "readline"
  /\ p_proc = "running"
  /\ p_want = "none"
  /\ out_todo \in 0..MaxOut
  /\ err_todo \in 0..MaxErr
  /\ out_pipe = 0
  /\ err_pipe = 0
  /\ out_open = TRUE

\* The process starts its next write.
ProcBeginWrite ==
  /\ p_proc = "running"
  /\ p_want = "none"
  /\ \E w \in {"out", "err"} :
       /\ w = "out" => out_open /\ out_todo > 0
       /\ w = "err" => err_todo > 0
       /\ p_want' = w
  /\ UNCHANGED <<p_mon, p_proc, out_todo, err_todo, out_pipe, err_pipe, out_open, job, chat, delivery, rest>>

\* write() on standard output returns once the pipe has room.
ProcWriteOut ==
  /\ p_want = "out"
  /\ out_pipe < OutCap
  /\ out_pipe' = out_pipe + 1
  /\ out_todo' = out_todo - 1
  /\ p_want' = "none"
  /\ UNCHANGED <<p_mon, p_proc, err_todo, err_pipe, out_open, job, chat, delivery, rest>>

\* write() on standard error returns once the pipe has room.
ProcWriteErr ==
  /\ p_want = "err"
  /\ err_pipe < ErrCap
  /\ err_pipe' = err_pipe + 1
  /\ err_todo' = err_todo - 1
  /\ p_want' = "none"
  /\ UNCHANGED <<p_mon, p_proc, out_todo, out_pipe, out_open, job, chat, delivery, rest>>

\* The process closes standard output when it has printed everything.
ProcCloseStdout ==
  /\ p_proc = "running"
  /\ p_want = "none"
  /\ out_open
  /\ out_todo = 0
  /\ out_open' = FALSE
  /\ UNCHANGED <<p_mon, p_proc, p_want, out_todo, err_todo, out_pipe, err_pipe, job, chat, delivery, rest>>

ProcExit ==
  /\ p_proc = "running"
  /\ p_want = "none"
  /\ ~out_open
  /\ err_todo = 0
  /\ p_proc' = "exited"
  /\ UNCHANGED <<p_mon, p_want, out_todo, err_todo, out_pipe, err_pipe, out_open, job, chat, delivery, rest>>

\* downloader.py:70 / 222: readline() returns a line.
MonitorReadline ==
  /\ p_mon = "readline"
  /\ out_pipe > 0
  /\ out_pipe' = out_pipe - 1
  /\ UNCHANGED <<p_mon, p_proc, p_want, out_todo, err_todo, err_pipe, out_open, job, chat, delivery, rest>>

\* downloader.py:71-72 / 223-224: readline() returns b'' at end of file.
MonitorEndOfFile ==
  /\ p_mon = "readline"
  /\ out_pipe = 0
  /\ ~out_open
  /\ p_mon' = "communicate"
  /\ UNCHANGED <<p_proc, p_want, out_todo, err_todo, out_pipe, err_pipe, out_open, job, chat, delivery, rest>>

\* downloader.py:84 / 236: communicate() reads standard error as it arrives.
MonitorCommunicate ==
  /\ p_mon = "communicate"
  /\ err_pipe > 0
  /\ err_pipe' = 0
  /\ UNCHANGED <<p_mon, p_proc, p_want, out_todo, err_todo, out_pipe, out_open, job, chat, delivery, rest>>

\* downloader.py:84-85 / 236-237: communicate() returns after the exit.
MonitorReturn ==
  /\ p_mon = "communicate"
  /\ p_proc = "exited"
  /\ err_pipe = 0
  /\ p_mon' = "returned"
  /\ UNCHANGED <<p_proc, p_want, out_todo, err_todo, out_pipe, err_pipe, out_open, job, chat, delivery, rest>>

NextPipes ==
  \/ ProcBeginWrite
  \/ ProcWriteOut
  \/ ProcWriteErr
  \/ ProcCloseStdout
  \/ ProcExit
  \/ MonitorReadline
  \/ MonitorEndOfFile
  \/ MonitorCommunicate
  \/ MonitorReturn

SpecPipes == InitPipes /\ [][NextPipes]_vars

\* ------------------------------------------------------- functions on their own
\* The job before its first step, for the models of single functions.
JobIdle ==
  /\ entry = "process"
  /\ url_ok = TRUE
  /\ options = <<>>
  /\ script = "free"
  /\ pc = "p_validate"
  /\ result = "running"
  /\ failed = FALSE
  /\ error = NoError
  /\ status_msg = "starting"
  /\ workspace = FALSE
  /\ created = FALSE
  /\ cleanups = 0
  /\ cmd = <<>>
  /\ process = "none"
  /\ returncode = NoCode
  /\ stderr_empty = TRUE
  /\ read = <<>>
  /\ stdout_chunks = <<>>
  /\ last_progress = 0
  /\ notified = <<>>
  /\ late_progress = FALSE
  /\ items = 0
  /\ extracted = FALSE
  /\ classified = FALSE
  /\ delivered = FALSE

Standalone == JobIdle /\ PipesIdle /\ ChatStart /\ DeliveryIdle

\* -------------------------------------------------------------- metadata.py
\* A text is the sequence of its characters.
Chars == {"a", "-", " "}

Stems == {s \in SeqsUpTo(Chars, MaxStem) : Len(s) >= 1}

\* metadata.py:19-26: the suffixes with a handler of their own, and one without.
Exts == {".m4a", ".mp4", ".flac", ".mp3", ".ogg"}

\* A media file: the stem and suffix of its name, and whether mutagen reads it.
MediaFiles == [stem : Stems, ext : Exts, readable : BOOLEAN]

\* Python's str.lstrip(), str.rstrip() and str.strip().
RECURSIVE lstrip(_)
lstrip(s) == IF s # <<>> /\ Head(s) = " " THEN lstrip(Tail(s)) ELSE s

RECURSIVE rstrip(_)
rstrip(s) ==
  IF s # <<>> /\ s[Len(s)] = " " THEN rstrip(SubSeq(s, 1, Len(s) - 1)) ELSE s

strip(s) == rstrip(lstrip(s))

\* Python's s.split(c, 1) for a text that holds c.
split_once(s, c) ==
  LET i == CHOOSE k \in 1..Len(s) : s[k] = c /\ \A j \in 1..(k - 1) : s[j] # c
  IN <<SubSeq(s, 1, i - 1), SubSeq(s, i + 1, Len(s))>>

\* metadata.py:185-197: the keys of the fallback record.
DefaultKeys ==
  {"title", "artist", "album", "duration", "tracknumber", "genre", "date", "isrc",
   "cover", "thumbnail", "explicit"}

\* metadata.py:172-197.
_default_metadata(stem) ==
  IF "-" \in Range(stem)
  THEN LET parts == split_once(stem, "-")
       IN [title |-> strip(parts[2]), artist |-> strip(parts[1]), keys |-> DefaultKeys]
  ELSE [title |-> stem, artist |-> <<"Unknown Artist">>, keys |-> DefaultKeys]

\* metadata.py:36-50, 59-69, 78-88, 97-105, 114-120: the keys of the record
\* each strategy builds.
StrategyKeys(ext) ==
  IF ext = ".m4a"
  THEN {"title", "artist", "album", "duration", "tracknumber", "genre", "date", "isrc",
        "cover", "thumbnail", "explicit", "bitrate", "codec"}
  ELSE IF ext = ".mp4"
  THEN {"title", "artist", "duration", "width", "height", "cover", "thumbnail",
        "resolution", "codec"}
  ELSE IF ext = ".flac"
  THEN {"title", "artist", "album", "duration", "bitdepth", "samplerate", "cover",
        "isrc", "genre"}
  ELSE IF ext = ".mp3"
  THEN {"title", "artist", "album", "duration", "tracknumber", "genre", "cover"}
  ELSE {"title", "artist", "album", "duration", "cover"}

\* metadata.py:12-30: the strategy of the suffix reads the tags; when it
\* cannot, it answers with the fallback record.
extract_apple_metadata(file) ==
  IF file.readable
  THEN [title |-> <<"Unknown">>, artist |-> <<"Unknown Artist">>,
        keys |-> StrategyKeys(file.ext)]
  ELSE _default_metadata(file.stem)

InitMeta ==
  /\ Standalone
  /\ FilesIdle
  /\ call_arg \in MediaFiles
  /\ call_ret = <<>>
  /\ call_done = FALSE

extract_apple_metadata_call ==
  /\ ~call_done
  /\ call_ret' = extract_apple_metadata(call_arg)
  /\ call_done' = TRUE
  /\ UNCHANGED <<call_arg, files, job, pipes, chat, delivery>>

NextMeta == extract_apple_metadata_call

SpecMeta == InitMeta /\ [][NextMeta]_vars

\* ------------------------------------------------------- validate_apple_url
\* A URL string is <scheme>://<host>/<seg>/<seg>/...; a segment is the text
\* between two slashes and may be empty.
Schemes == {"https", "http"}

Hosts == {"music.apple.com", "example.com"}

Segs == {"us", "album", "station", ""}

UrlStrings == [scheme : Schemes, host : Hosts, segs : SeqsUpTo(Segs, MaxSegs)]

\* The segments joined with "/" are at least one character long: what the
\* pattern's `.+` needs.
NonEmptyText(segs) ==
  Len(segs) >= 2 \/ (Len(segs) = 1 /\ segs[1] # "")

\* utils.py:21-25: the kind alternatives of the three patterns.
patterns == <<Kinds, {"album"}, {"playlist"}>>

\* re.match of https://music\.apple\.com/.+/(kinds)/.+ : the kind must be a
\* whole segment with text before it and text after it; `.+` runs across "/".
re_match(kinds, u) ==
  /\ u.scheme = "https"
  /\ u.host = "music.apple.com"
  /\ \E i \in 1..Len(u.segs) :
       /\ u.segs[i] \in kinds
       /\ NonEmptyText(SubSeq(u.segs, 1, i - 1))
       /\ NonEmptyText(SubSeq(u.segs, i + 1, Len(u.segs)))

\* utils.py:13-26.
validate_apple_url(u) == \E k \in 1..Len(patterns) : re_match(patterns[k], u)

InitUrl ==
  /\ Standalone
  /\ FilesIdle
  /\ call_arg \in UrlStrings
  /\ call_ret = <<>>
  /\ call_done = FALSE

validate_apple_url_call ==
  /\ ~call_done
  /\ call_ret' = validate_apple_url(call_arg)
  /\ call_done' = TRUE
  /\ UNCHANGED <<call_arg, files, job, pipes, chat, delivery>>

NextUrl == validate_apple_url_call

SpecUrl == InitUrl /\ [][NextUrl]_vars

\* ------------------------------------------------------------------ files
\* A path is the sequence of its segments, an absolute one starting with "/";
\* a file system is a function from the paths that exist to <<"dir">> or to
\* the content of the file.
StorageRoots == {<<"/", "data">>, <<"data">>}

Users == {"u1", "u2"}

Jobs == {1, 2}

\* Config.APPLE_MEDIA_TOKEN and the other settings written into the
\* configuration file, at the time of a call.
Tokens == {"t1", "t2"}

IsAbsolute(p) == Len(p) > 0 /\ p[1] = "/"

\* os.path.join(a, b): an absolute b discards a.
path_join(a, b) == IF IsAbsolute(b) THEN b ELSE a \o b

\* One directory for the workspaces of all users.
shared_dir(root, id) == path_join(root, <<"Apple Music">>)

\* utils.py:48-52 / 127-131: os.path.join(LOCAL_STORAGE, "Apple Music", str(user_id)).
apple_dir(root, id) == path_join(path_join(root, <<"Apple Music">>), id)

\* utils.py:239: os.path.join(LOCAL_STORAGE, "Zips", str(user_id)).
zip_dir(root, id) == path_join(path_join(root, <<"Zips">>), id)

Prefixes(p) == {SubSeq(p, 1, k) : k \in 1..Len(p)}

\* Path p is directory d or lies inside it.
Under(p, d) == Len(p) >= Len(d) /\ SubSeq(p, 1, Len(d)) = d

\* os.makedirs(d, exist_ok=True).
makedirs(f, d) ==
  [p \in DOMAIN f \cup Prefixes(d) |-> IF p \in DOMAIN f THEN f[p] ELSE <<"dir">>]

\* open(p, 'w').write(text).
write_file(f, p, text) ==
  [q \in DOMAIN f \cup {p} |-> IF q = p THEN text ELSE f[q]]

\* os.remove(p) of a file that exists.
remove_file(f, p) == [q \in DOMAIN f \ {p} |-> f[q]]

\* utils.py:72-117: the text depends on the settings only.
generate_apple_config(id, tok) == <<"config", tok>>

\* utils.py:47-60: the directory and its three subdirectories.
apple_subdirs(f, base) ==
  makedirs(makedirs(makedirs(makedirs(f, base), Append(base, "alac")),
                    Append(base, "atmos")), Append(base, "aac"))

\* A directory set-up that writes the configuration file on every call.
always_write(f, root, id, tok) ==
  write_file(apple_subdirs(f, apple_dir(root, id)),
             Append(apple_dir(root, id), "config.yaml"),
             generate_apple_config(id, tok))

\* utils.py:39-70 on file system f.
create_apple_directory_fs(f, root, id, tok) ==
  LET base == apple_dir(root, id)
      dirs == apple_subdirs(f, base)
      config_path == Append(base, "config.yaml")
  IN IF config_path \in DOMAIN dirs
     THEN dirs
     ELSE write_file(dirs, config_path, generate_apple_config(id, tok))

\* A removal that does nothing at all when something cannot be removed.
all_or_nothing(f, d, stuck) ==
  IF stuck = {} THEN [p \in {q \in DOMAIN f : ~Under(q, d)} |-> f[p]] ELSE f

\* shutil.rmtree(d, ignore_errors=True): everything under d goes, except the
\* paths that cannot be removed (stuck) and the directories that hold them.
rmtree(f, d, stuck) ==
  LET keep == UNION {Prefixes(p) : p \in stuck}
  IN [p \in {q \in DOMAIN f : ~Under(q, d) \/ q \in keep} |-> f[p]]

\* A cleanup that removes nothing.
no_cleanup(f, root, id, stuck) == f

\* utils.py:119-135 on file system f.
cleanup_apple_files_fs(f, root, id, stuck) ==
  IF apple_dir(root, id) \in DOMAIN f THEN rmtree(f, apple_dir(root, id), stuck) ELSE f

\* utils.py:237-249: the archive is written into the user's zip directory.
create_apple_zip_fs(f, root, id) ==
  write_file(makedirs(f, zip_dir(root, id)),
             Append(zip_dir(root, id), "title - artist.zip"), <<"zip">>)

\* The paths that differ between two file systems.
Changed(f, g) ==
  {p \in DOMAIN f \cup DOMAIN g : p \notin DOMAIN f \/ p \notin DOMAIN g \/ f[p] # g[p]}

\* Two jobs on one storage root.
FileEntries == {"process", "handle_apple_download"}

InitFiles ==
  /\ Standalone
  /\ CallIdle
  /\ storage \in StorageRoots
  /\ fs = [p \in Prefixes(storage) |-> <<"dir">>]
  /\ j_entry \in [Jobs -> FileEntries]
  /\ j_user \in [Jobs -> Users]
  /\ j_pc = [j \in Jobs |-> "start"]
  /\ actor = 0
  /\ touched = {}

\* apple.py:39 / downloader.py:140: the directory of the job's user.
Workdir(j) == apple_dir(storage, <<j_user[j]>>)

\* apple.py:43-48 with downloader.py:30: process hands the directory, not the
\* user id, to run_apple_downloader, which derives the directory again;
\* downloader.py:140: handle_apple_download uses the directory itself.
OutputDir(j) ==
  IF j_entry[j] = "process" THEN apple_dir(storage, Workdir(j)) ELSE Workdir(j)

\* apple.py:71-76: the media files found under directory d.
MediaUnder(f, d) == {p \in DOMAIN f : Under(p, d) /\ f[p][1] = "media"}

\* Job j takes a step that leaves file system g and goes on at next.
FileStep(j, g, next) ==
  /\ fs' = g
  /\ touched' = Changed(fs, g)
  /\ actor' = j
  /\ j_pc' = [j_pc EXCEPT ![j] = next]
  /\ UNCHANGED <<storage, j_entry, j_user, call, job, pipes, chat, delivery>>

\* apple.py:39 / downloader.py:140: create_apple_directory(user['user_id']).
files_create(j) ==
  /\ j_pc[j] = "start"
  /\ \E tok \in Tokens :
       FileStep(j, create_apple_directory_fs(fs, storage, <<j_user[j]>>, tok), "created")

\* downloader.py:30: run_apple_downloader calls create_apple_directory on what
\* it was given as user id.
files_setup(j) ==
  /\ j_pc[j] = "created"
  /\ j_entry[j] = "process"
  /\ \E tok \in Tokens :
       FileStep(j, create_apple_directory_fs(fs, storage, Workdir(j), tok), "setup")

\* downloader.py:46-52 / 154-159: the acquisition process runs in the output
\* directory and writes the media there; the spawn fails when it is gone.
files_spawn(j) ==
  /\ j_pc[j] = (IF j_entry[j] = "process" THEN "setup" ELSE "created")
  /\ IF OutputDir(j) \in DOMAIN fs
     THEN FileStep(j, write_file(fs, Append(OutputDir(j), "song.m4a"), <<"media", j>>),
                   "downloaded")
     ELSE FileStep(j, fs, "failed")

\* uploader.py:83: create_apple_zip writes the archive; the await on its
\* result then raises.
files_archive(j) ==
  /\ j_pc[j] = "downloaded"
  /\ j_entry[j] = "process"
  /\ MediaUnder(fs, Workdir(j)) # {}
  /\ FileStep(j, create_apple_zip_fs(fs, storage, <<j_user[j]>>), "archived")

\* uploader.py:44 / 73: os.remove(metadata['filepath']) after a single upload.
files_deliver_track(j) ==
  /\ j_pc[j] = "downloaded"
  /\ j_entry[j] = "process"
  /\ \E p \in MediaUnder(fs, Workdir(j)) :
       FileStep(j, remove_file(fs, p), "delivered")

\* uploader.py:107 / 139 / 171: shutil.rmtree(metadata['folderpath']) after a
\* collection upload.
files_deliver_album(j) ==
  /\ j_pc[j] = "downloaded"
  /\ j_entry[j] = "process"
  /\ MediaUnder(fs, Workdir(j)) # {}
  /\ FileStep(j, rmtree(fs, Workdir(j), {}), "delivered")

\* What may resist a removal under d: nothing, or one of the paths there.
StuckSets(f, d) == {{}} \cup {{p} : p \in {q \in DOMAIN f : Under(q, d)}}

\* apple.py:60 / 65, downloader.py:165 / 171: cleanup_apple_files(user['user_id'])
\* on the way out, whatever happened before.
files_cleanup(j) ==
  /\ j_pc[j] \notin {"start", "cleaned"}
  /\ \E stuck \in StuckSets(fs, Workdir(j)) :
       FileStep(j, cleanup_apple_files_fs(fs, storage, <<j_user[j]>>, stuck), "cleaned")

NextFiles ==
  \/ \E j \in Jobs : files_create(j)
  \/ \E j \in Jobs : files_setup(j)
  \/ \E j \in Jobs : files_spawn(j)
  \/ \E j \in Jobs : files_archive(j)
  \/ \E j \in Jobs : files_deliver_track(j)
  \/ \E j \in Jobs : files_deliver_album(j)
  \/ \E j \in Jobs : files_cleanup(j)

SpecFiles == InitFiles /\ [][NextFiles]_vars

\* ---------------------------------------------------------------- archive
\* The process's working directory.
Cwd == <<"/", "app">>

\* The folder as the caller writes it: absolute, relative, with "." and "..".
Folders ==
  {<<"/", "data", "u1">>, <<"data", "u1">>, <<".", "data", "u1">>,
   <<"data", "..", "data", "u1">>}

FileNames == {"a", "..a"}

\* The files of a folder, by their segments below it: no file lies under
\* another file.
Trees ==
  {t \in SUBSET (SeqsUpTo(FileNames, MaxDepth) \ {<<>>}) :
     \A x \in t : \A y \in t : x = y \/ ~Under(x, y)}

\* metadata['title'] as segments of the archive's name: a title with "/" in
\* it names an archive in a directory that does not exist.
Titles == {<<"title - artist.zip">>, <<"ti", "tle - artist.zip">>}

ZipCalls == [folder : Folders, tree : Trees, title : Titles]

RECURSIVE normpath_from(_, _)
normpath_from(acc, p) ==
  IF p = <<>> THEN acc
  ELSE LET seg == Head(p)
           last == IF acc = <<>> THEN "" ELSE acc[Len(acc)]
       IN normpath_from(
            IF seg = "." THEN acc
            ELSE IF seg = ".."
                 THEN IF last = "/" THEN acc
                      ELSE IF last \in {"", ".."} THEN Append(acc, seg)
                      ELSE SubSeq(acc, 1, Len(acc) - 1)
                 ELSE Append(acc, seg),
            Tail(p))

\* os.path.normpath.
normpath(p) == normpath_from(<<>>, p)

\* os.path.abspath.
abspath(p) == normpath(path_join(Cwd, p))

RECURSIVE common_prefix(_, _)
common_prefix(a, b) ==
  IF a = <<>> \/ b = <<>> \/ Head(a) # Head(b) THEN 0
  ELSE 1 + common_prefix(Tail(a), Tail(b))

\* The path itself, whatever the start.
full_path(path, start) == path

\* os.path.relpath(path, start).
relpath(path, start) ==
  LET a == abspath(path)
      b == abspath(start)
      i == common_prefix(a, b)
      ups == [k \in 1..(Len(b) - i) |-> ".."]
      rel == ups \o SubSeq(a, i + 1, Len(a))
  IN IF rel = <<>> THEN <<".">> ELSE rel

\* zipfile.ZipInfo.from_file: the entry's name is the normalised arcname
\* without leading separators.
entry_name(arcname) ==
  LET n == normpath(arcname)
  IN IF IsAbsolute(n) THEN Tail(n) ELSE n

\* utils.py:244-248: one entry per file that os.walk finds, in its order.
RECURSIVE zip_entries(_, _)
zip_entries(folder, tree) ==
  IF tree = {} THEN <<>>
  ELSE LET file == CHOOSE x \in tree : TRUE
           file_path == folder \o file
       IN <<entry_name(relpath(file_path, folder))>> \o zip_entries(folder, tree \ {file})

\* utils.py:237-254: the archive's entries, or the exception of an archive
\* that cannot be opened for writing.
create_apple_zip(c) ==
  IF Len(c.title) > 1
  THEN [raised |-> TRUE, entries |-> <<>>]
  ELSE [raised |-> FALSE, entries |-> zip_entries(c.folder, c.tree)]

InitZip ==
  /\ Standalone
  /\ FilesIdle
  /\ call_arg \in ZipCalls
  /\ call_ret = <<>>
  /\ call_done = FALSE

create_apple_zip_call ==
  /\ ~call_done
  /\ call_ret' = create_apple_zip(call_arg)
  /\ call_done' = TRUE
  /\ UNCHANGED <<call_arg, files, job, pipes, chat, delivery>>

NextZip == create_apple_zip_call

SpecZip == InitZip /\ [][NextZip]_vars

\* ---------------------------------------------------------- parse_options
\* A token of the command text: dashes is part.startswith('--'), and text is
\* part[2:] of such a token, the whole token otherwise.
Part(d, t) == [dashes |-> d, text |-> t]

OptionParts == {Part(TRUE, "atmos"), Part(TRUE, "song"), Part(FALSE, "3")}

\* The link, as the last token of the command or as the replied-to message.
UrlPart == Part(FALSE, "url")

\* download.py:20-32: the tokens after the command name, and whether the
\* command replies to a message that holds the link.
Commands ==
  [reply : BOOLEAN,
   parts : {IF r THEN o ELSE Append(o, UrlPart) :
              r \in BOOLEAN, o \in SeqsUpTo(OptionParts, MaxParts)}]

\* options[key] = value on an insertion-ordered dict.
dict_set(d, e) ==
  IF \E i \in 1..Len(d) : d[i].key = e.key
  THEN [i \in 1..Len(d) |-> IF d[i].key = e.key THEN e ELSE d[i]]
  ELSE Append(d, e)

\* download.py:68-77, the loop from index i on.
RECURSIVE parse_options_from(_, _, _)
parse_options_from(parts, i, opts) ==
  IF i > Len(parts) THEN opts
  ELSE IF parts[i].dashes
       THEN IF i + 1 <= Len(parts) /\ ~parts[i + 1].dashes
            THEN parse_options_from(parts, i + 2,
                   dict_set(opts, [key |-> parts[i].text, isbool |-> FALSE,
                                      val |-> parts[i + 1].text]))
            ELSE parse_options_from(parts, i + 1,
                   dict_set(opts, [key |-> parts[i].text, isbool |-> TRUE,
                                      val |-> "x"]))
       ELSE parse_options_from(parts, i + 1, opts)

\* download.py:57-78.
parse_options(parts) == parse_options_from(parts, 1, <<>>)

\* download.py:20-32: the options and the link of a command.
download_track_parse(c) ==
  [options |-> parse_options(c.parts),
   link |-> IF c.reply THEN "url"
            ELSE IF c.parts # <<>> THEN c.parts[Len(c.parts)].text ELSE "none"]

InitParse ==
  /\ Standalone
  /\ FilesIdle
  /\ call_arg \in {c \in Commands : c.reply \/ c.parts # <<>>}
  /\ call_ret = <<>>
  /\ call_done = FALSE

download_track_parse_call ==
  /\ ~call_done
  /\ call_ret' = download_track_parse(call_arg)
  /\ call_done' = TRUE
  /\ UNCHANGED <<call_arg, files, job, pipes, chat, delivery>>

NextParse == download_track_parse_call

SpecParse == InitParse /\ [][NextParse]_vars

\* ---------------------------------------------------------------- claims
Done == pc = "done"

\* Python's `in` on the text pieces of an error: the error text holds the line.
ErrorCarries(e, line) == e.kind = "tail" /\ line \in Range(e.lines)

\* The error text the specification prescribes for a non-zero exit status:
\* the captured standard error, or the last lines read when it is empty.
PrescribedError ==
  IF ~stderr_empty THEN "stderr" ELSE "tail"

\* An argument vector made only of mapped flags, each alone or with a value.
RECURSIVE OnlyMappedFlags(_)
OnlyMappedFlags(args) ==
  \/ args = <<>>
  \/ /\ Head(args) \in {option_map[k] : k \in DOMAIN option_map}
     /\ \/ OnlyMappedFlags(Tail(args))
        \/ /\ Len(args) >= 2
           /\ OnlyMappedFlags(Tail(Tail(args)))

\* C1: on every path of a job that passed validation (success, spawn failure,
\* acquisition error, no media, delivery failure), cleanup_apple_files has
\* been called exactly once when the entry point ends.
C1_CleanupExactlyOnce == Done /\ url_ok => cleanups = 1

\* C2: when the entry point ends, by return or by exception, the workspace
\* directory the job created no longer exists.
C2_WorkspaceGoneAtEnd == Done /\ created => ~workspace

\* C3: a job whose acquisition process exited with status 0 and that has not
\* failed removes the workspace or reports completion only after metadata
\* extraction, classification and delivery have run.
C3_DeliveryBeforeCleanup ==
  returncode = 0 /\ ~failed /\ (cleanups > 0 \/ status_msg = "completed")
    => extracted /\ classified /\ delivered

\* C4: no progress value is notified after a fatal line was read, and a job
\* that read a fatal line ends failed with an error that carries that line.
C4_FatalLineAborts ==
  /\ ~late_progress
  /\ Done /\ FatalRead => failed /\ ErrorCarries(error, FatalLine)

\* C5: every notified progress value is a multiple of 5 and differs from the
\* one notified before it; from the output 1%,4%,5%,5%,9%,10% nothing but 5
\* and then 10 is notified.
C5_ProgressThrottled ==
  /\ \A i \in 1..Len(notified) : notified[i] % ThrottleStep = 0
  /\ \A i \in 2..Len(notified) : notified[i] # notified[i - 1]
  /\ read = ExampleOutput => notified \in {<<>>, <<5>>, <<10>>, <<5, 10>>}

\* C6: the progress values shown to the user lie in 0..100 and never decrease.
C6_ProgressMonotone ==
  /\ \A i \in 1..Len(notified) : notified[i] \in 0..100
  /\ \A i \in 2..Len(notified) : notified[i - 1] <= notified[i]

\* C7: after a non-zero exit status the job has failed and its error text is
\* the captured standard error, or the last TailLen lines read when standard
\* error is empty (a prefix before that text is not held against the code).
C7_ExitStatusError ==
  returncode \notin {NoCode, 0} =>
    /\ failed
    /\ error.kind = PrescribedError
    /\ error.kind = "tail" => error.lines = LastN(read, TailLen)

\* C8: reading a decodable line that is not fatal and holds no "digits%"
\* token changes neither the job's position, outcome and error nor what the
\* user was notified of.
C8_OtherLinesIgnored ==
  [][(pc \in {"h_monitor", "p_monitor"}
        /\ Len(read') = Len(read) + 1
        /\ LET line == read'[Len(read')]
           IN line.utf8 /\ ~line.fatal /\ line.num = NoNum)
      => UNCHANGED <<result, failed, error, status_msg, notified>>
         /\ pc' = pc]_vars

\* C9: the argument vector of the spawned process is the binary, then mapped
\* flags with their values only, then the output-directory flag and the URL.
C9_ArgvWhitelisted ==
  cmd # <<>> =>
    /\ Len(cmd) >= 4
    /\ Head(cmd) = "DOWNLOADER_PATH"
    /\ SubSeq(cmd, Len(cmd) - 2, Len(cmd)) = <<"--output", "output_dir", "url">>
    /\ OnlyMappedFlags(SubSeq(cmd, 2, Len(cmd) - 3))

\* C10: the acquisition process is never still running (spawned and not
\* waited on) once the job has cleaned up or has ended.
C10_ReapedBeforeEnd == (Done \/ cleanups > 0) => process # "running"

\* C11: over bounded pipes monitoring is never stuck: as long as the monitor
\* has not returned, the process or the monitor can take a step.
C11_NeverBlockedForever == p_mon = "returned" \/ ENABLED NextPipes

\* C12 as stated: when the command handler has finished, the status message
\* is the only message of the job and is still shown.
C12_OnlyStatusMessageStaysVisible ==
  dt_pc = "end" => sent_msgs = <<>> /\ bot_msg = "shown"

\* C12: the job has one status message and sends nothing else while it runs;
\* after the job the command handler sends at most one separate result
\* message, and only then deletes the status message, which is gone once the
\* command handler has finished.
C12_OneStatusThenResultThenDeleted ==
  /\ dt_pc = "start_link" => sent_msgs = <<>> /\ bot_msg = "shown"
  /\ Len(sent_msgs) <= 1
  /\ bot_msg = "deleted" => Len(sent_msgs) = 1
  /\ dt_pc \in {"cleanup", "release", "end"} => bot_msg = "deleted"

C12_Witness ==
  /\ dt_pc = "end"
  /\ status_msg = "completed"
  /\ sent_msgs = <<"TASK_COMPLETED">>
  /\ bot_msg = "deleted"

\* The URL carries marker m: as its kind segment, or inside its name.
HasMarker(u, m) ==
  \/ u.kind = m
  \/ u.name = (IF m = "music-video" THEN <<"music", "video", "mix">>
               ELSE IF m = "playlist" THEN <<"top", "playlist", "hits">>
               ELSE <<"the", "artist">>)

\* The handler of the classified content has ended.
HandlerEnded == h_pc \in {"returned", "raised"}

\* Direct transport with the zip flag of the bundle's type set / unset.
BundlePolicy ==
  content_type \in BundleTypes /\ Config.UPLOAD_MODE = "Telegram" /\ ZipFlag(content_type)

FanOutPolicy ==
  content_type \in BundleTypes /\ Config.UPLOAD_MODE = "Telegram" /\ ~ZipFlag(content_type)

\* C13: classification is first match wins: the video marker gives video;
\* else the playlist marker gives playlist; else the artist marker gives
\* artist; else more than one item gives album and exactly one gives track.
C13_FirstMatchWins ==
  classified =>
    LET v == HasMarker(url, "music-video")
        p == HasMarker(url, "playlist")
        a == HasMarker(url, "artist")
    IN /\ v => content_type = "video"
       /\ ~v /\ p => content_type = "playlist"
       /\ ~v /\ ~p /\ a => content_type = "artist"
       /\ ~v /\ ~p /\ ~a /\ items > 1 => content_type = "album"
       /\ ~v /\ ~p /\ ~a /\ items = 1 => content_type = "track"

C13_Witness ==
  /\ classified
  /\ url.kind = "playlist"
  /\ HasMarker(url, "music-video")
  /\ content_type = "video"

\* C14: the class depends only on the URL's kind segment and the item count:
\* an album URL gives track with one item and album with more, a playlist URL
\* gives playlist, whatever the name segment holds.
C14_ShapeDecides ==
  classified =>
    /\ url.kind = "album" => content_type = (IF items = 1 THEN "track" ELSE "album")
    /\ url.kind = "playlist" => content_type = "playlist"

\* C15: in track and video delivery a file is removed only after it was
\* transmitted (sent to the chat, or linked on the remote).
C15_RemovedOnlyAfterTransmission ==
  content_type \in {"track", "video"} =>
    \A k \in removed_items : k \in sent_items \/ notice = "link"

\* C16: under the bundle policy no archive is left once the handler has ended,
\* and a handler that returned has sent and removed its archive.
C16_ArchiveSentThenRemoved ==
  BundlePolicy /\ HandlerEnded =>
    /\ archive \in {"none", "removed"}
    /\ h_pc = "returned" => archive = "removed"

\* C17: under the fan-out policy the handler run on the classifier's bundle
\* sends every item found, unless a transmission fails.
C17_FanOutDeliversEveryItem ==
  entry = "process" /\ FanOutPolicy /\ HandlerEnded =>
    sent_items = 1..items \/ h_error \in {"send", "child"}

C19_TransportFailureRaises ==
  rclone_result \in {"unset", "failed"} =>
    /\ h_pc = "raised"
    /\ notice = "none"
    /\ removed_items = {}
    /\ ~folder_removed
    /\ status_msg # "completed"

\* C20: a bundle's folder is removed only when all its members, or its
\* archive, have been delivered.
C20_FolderRemovedOnlyAfterDelivery ==
  folder_removed =>
    \/ sent_items = 1..items
    \/ archive \in {"sent", "removed"}
    \/ notice = "link"

\* C21: whenever the content is classified track or video, exactly one media
\* item was found, so the single-item handler drops nothing.
C21_SingleItemForTrackAndVideo ==
  classified /\ content_type \in {"track", "video"} => items = 1

\* C22: a job of AppleMusicCore.process that finds no media file ends failed:
\* no delivery handler is called, the workspace is cleaned, the error is the
\* no-media error, and the status message shows an error, never success.
C22_NoMediaIsTerminal ==
  entry = "process" /\ extracted /\ items = 0 =>
    /\ h_pc = "idle"
    /\ ~classified
    /\ ~delivered
    /\ failed
    /\ error = Err("no_media")
    /\ status_msg # "completed"
    /\ pc = "done" => ~workspace
    /\ pc = "done" /\ result = "returned" => status_msg = "error"

C22_Witness ==
  /\ entry = "process"
  /\ extracted
  /\ items = 0
  /\ pc = "done"
  /\ ~workspace
  /\ status_msg = "error"

\* C23: for a file whose tags cannot be read, the record returned has a
\* non-empty title and a non-empty artist, whatever the file is called.
C23_FallbackTitleAndArtist ==
  call_done /\ ~call_arg.readable =>
    call_ret.title # <<>> /\ call_ret.artist # <<>>

\* The accepted shape: https, the music host, a storefront segment, a kind
\* segment, then a non-empty remainder.
AcceptedShape(u) ==
  /\ u.scheme = "https"
  /\ u.host = "music.apple.com"
  /\ Len(u.segs) >= 3
  /\ u.segs[1] # ""
  /\ u.segs[2] \in {"album", "song", "playlist", "music-video", "artist"}
  /\ \E i \in 3..Len(u.segs) : Len(u.segs) > 3 \/ u.segs[i] # ""

\* C24: validate_apple_url returns true exactly for the URLs of the accepted
\* shape.
C24_ValidatorAcceptsExactlyTheShape ==
  call_done => (call_ret <=> AcceptedShape(call_arg))

\* C25: a job whose URL the validator rejects goes no further than the
\* validation: nothing is created, no process is started, and once the job
\* has ended without a failing edit the status message shows the invalid-URL
\* error.
C25_InvalidUrlEndsJob ==
  ~url_ok =>
    /\ pc \in {"h_validate", "p_validate", "h_except", "p_except", "done"}
    /\ ~created
    /\ process = "none"
    /\ cmd = <<>>
    /\ returncode = NoCode
    /\ status_msg # "completed"
    /\ pc = "done" /\ error = NoError =>
         status_msg = "invalid" /\ failed /\ result = "returned"

C25_Witness ==
  /\ ~url_ok
  /\ pc = "done"
  /\ status_msg = "invalid"
  /\ ~created

\* C26: when the acquisition binary is missing, run_apple_downloader gives a
\* failure result and spawns nothing; the job is failed, its workspace is
\* cleaned once, and the status message shows the error, never success.
C26_MissingBinaryFailsJob ==
  error = Err("missing") =>
    /\ entry = "process"
    /\ pc \in {"p_except", "done"}
    /\ process = "none"
    /\ cmd = <<>>
    /\ returncode = NoCode
    /\ failed
    /\ ~extracted
    /\ ~delivered
    /\ status_msg # "completed"
    /\ pc = "done" => ~workspace /\ cleanups = 1
    /\ pc = "done" /\ result = "returned" => status_msg = "error"

C26_Witness ==
  /\ error = Err("missing")
  /\ created
  /\ pc = "done"
  /\ ~workspace
  /\ status_msg = "error"

\* C27: create_apple_directory is idempotent. On every file system the jobs
\* reach and for every user, a call leaves the user's directory with its
\* configuration file; a second call, even under changed settings, changes
\* nothing on disk; a call changes no path that existed, so a configuration
\* file that is there is never rewritten; and when a job's acquisition process
\* has just been spawned, the configuration file is in its directory (no other
\* job of the same user having removed the directory meanwhile).
ConfigPath(id) == Append(apple_dir(storage, id), "config.yaml")

C27_CreateDirectoryIdempotent ==
  /\ \A u \in Users : \A tok \in Tokens : \A again \in Tokens :
       LET once == create_apple_directory_fs(fs, storage, <<u>>, tok)
       IN /\ ConfigPath(<<u>>) \in DOMAIN once
          /\ create_apple_directory_fs(once, storage, <<u>>, again) = once
          /\ \A p \in DOMAIN fs : p \in DOMAIN once /\ once[p] = fs[p]
  /\ \A j \in Jobs :
       (/\ actor = j
        /\ j_pc[j] = "downloaded"
        /\ \A k \in Jobs \ {j} :
             j_user[k] # j_user[j] \/ j_pc[k] \notin {"delivered", "cleaned"})
       => Append(OutputDir(j), "config.yaml") \in DOMAIN fs

\* A job has called create_apple_directory a second time on the directory it
\* already set up, under other settings than those in the configuration file,
\* and nothing on disk changed.
C27_Witness ==
  \E j \in Jobs :
    /\ j_entry[j] = "process"
    /\ j_pc[j] = "setup"
    /\ actor = j
    /\ OutputDir(j) = Workdir(j)
    /\ touched = {}
    /\ \E tok \in Tokens : \E other \in Tokens \ {tok} :
         /\ fs[ConfigPath(<<j_user[j]>>)] = generate_apple_config(<<j_user[j]>>, tok)
         /\ create_apple_directory_fs(fs, storage, <<j_user[j]>>, other) = fs

\* C28 as stated: cleanup_apple_files removes the workspace when it exists,
\* and leaves the state unchanged when called again, when the workspace never
\* existed, or when removal fails.
C28_CleanupLeavesStateUnchangedOnFailure ==
  \A u \in Users : \A stuck \in StuckSets(fs, apple_dir(storage, <<u>>)) :
    LET d == apple_dir(storage, <<u>>)
        removed == cleanup_apple_files_fs(fs, storage, <<u>>, {})
    IN /\ \A p \in DOMAIN removed : ~Under(p, d)
       /\ cleanup_apple_files_fs(removed, storage, <<u>>, stuck) = removed
       /\ d \notin DOMAIN fs => cleanup_apple_files_fs(fs, storage, <<u>>, stuck) = fs
       /\ stuck # {} => cleanup_apple_files_fs(fs, storage, <<u>>, stuck) = fs

\* C28: cleanup_apple_files removes the workspace when it exists; called
\* again, or when the workspace never existed, it leaves the state unchanged;
\* when removal fails it leaves under the workspace exactly what could not be
\* removed and the directories holding it; in every case it only removes,
\* touches nothing outside the workspace, and the job goes on as cleaned.
C28_CleanupRemovesWhatItCan ==
  /\ \A u \in Users : \A stuck \in StuckSets(fs, apple_dir(storage, <<u>>)) :
       LET d == apple_dir(storage, <<u>>)
           removed == cleanup_apple_files_fs(fs, storage, <<u>>, {})
           left == cleanup_apple_files_fs(fs, storage, <<u>>, stuck)
       IN /\ \A p \in DOMAIN removed : ~Under(p, d)
          /\ cleanup_apple_files_fs(removed, storage, <<u>>, stuck) = removed
          /\ d \notin DOMAIN fs => left = fs
          /\ \A p \in DOMAIN left : p \in DOMAIN fs /\ left[p] = fs[p]
          /\ \A p \in DOMAIN fs : ~Under(p, d) => p \in DOMAIN left
          /\ \A p \in DOMAIN fs :
               Under(p, d) => (p \in DOMAIN left <=> \E q \in stuck : Under(q, p))
  /\ \A j \in Jobs :
       (actor = j /\ j_pc[j] = "cleaned")
       => \A p \in touched : p \notin DOMAIN fs /\ Under(p, Workdir(j))

\* A job has just cleaned up, part of its workspace went and part of it is
\* still there.
C28_Witness ==
  \E j \in Jobs :
    /\ actor = j
    /\ j_pc[j] = "cleaned"
    /\ touched # {}
    /\ Workdir(j) \in DOMAIN fs
    /\ \E p \in DOMAIN fs : Len(p) > Len(Workdir(j)) /\ Under(p, Workdir(j))

\* C29: when create_apple_zip has written the archive of a folder, the
\* archive has as many entries as the folder has files, the entries are the
\* files' paths below the folder, none is absolute and none has a ".." segment.
C29_ArchiveEntriesAreRelativePaths ==
  (call_done /\ ~call_ret.raised) =>
    /\ Len(call_ret.entries) = Cardinality(call_arg.tree)
    /\ {call_ret.entries[k] : k \in 1..Len(call_ret.entries)} = call_arg.tree
    /\ \A k \in 1..Len(call_ret.entries) :
         /\ ~IsAbsolute(call_ret.entries[k])
         /\ \A n \in 1..Len(call_ret.entries[k]) : call_ret.entries[k][n] # ".."

\* The archive of a folder written with ".." in its path, holding files at
\* two depths, one of them with a name that starts with two dots.
C29_Witness ==
  /\ call_done
  /\ ~call_ret.raised
  /\ \E n \in 1..Len(call_arg.folder) : call_arg.folder[n] = ".."
  /\ \E x \in call_arg.tree : Len(x) = MaxDepth /\ x[1] = "..a"
  /\ \E x \in call_arg.tree : Len(x) = 1
  /\ Len(call_ret.entries) >= 2

\* C30: when the two jobs belong to different users, no step of one job
\* creates, changes or removes a path inside the other job's workspace, inside
\* the directory the other job's acquisition process writes to, or inside the
\* other user's archive directory.
C30_DistinctUsersShareNoPath ==
  \A j \in Jobs : \A k \in Jobs :
    (actor = j /\ j_user[k] # j_user[j])
    => \A p \in touched :
         /\ ~Under(p, Workdir(k))
         /\ ~Under(p, OutputDir(k))
         /\ ~Under(p, zip_dir(storage, <<j_user[k]>>))

\* One job has just removed its workspace while the job of another user has
\* its download and its archive on disk.
C30_Witness ==
  \E j \in Jobs : \E k \in Jobs :
    /\ j_user[k] # j_user[j]
    /\ actor = j
    /\ j_pc[j] = "cleaned"
    /\ touched # {}
    /\ j_pc[k] = "archived"
    /\ MediaUnder(fs, Workdir(k)) # {}
    /\ Append(zip_dir(storage, <<j_user[k]>>), "title - artist.zip") \in DOMAIN fs

\* C31: two jobs of the same user have the same workspace directory, and
\* whenever one of them can run its cleanup while the other has downloaded and
\* not yet delivered, that cleanup leaves none of the downloaded media in the
\* workspace.
C31_SameUserCleanupRemovesDownloads ==
  \A j \in Jobs : \A k \in Jobs \ {j} :
    j_user[j] = j_user[k] =>
      /\ Workdir(j) = Workdir(k)
      /\ (j_pc[j] \notin {"start", "cleaned"} /\ j_pc[k] = "downloaded")
         => MediaUnder(cleanup_apple_files_fs(fs, storage, <<j_user[j]>>, {}), Workdir(k)) = {}

\* The cleanup of one job has just removed the file that the other job of the
\* same user downloaded into the workspace and has not delivered.
C31_Witness ==
  \E j \in Jobs : \E k \in Jobs \ {j} :
    /\ j_user[j] = j_user[k]
    /\ actor = j
    /\ j_pc[j] = "cleaned"
    /\ j_pc[k] = "downloaded"
    /\ OutputDir(k) = Workdir(k)
    /\ Append(OutputDir(k), "song.m4a") \in touched
    /\ Append(OutputDir(k), "song.m4a") \notin DOMAIN fs

\* C32: in a job run by process, the directory the acquisition process runs in
\* and writes to is the workspace that is scanned and cleaned, and after a
\* cleanup that removed the workspace nothing the job created is left.
C32_OutputDirIsTheWorkspace ==
  \A j \in Jobs :
    j_entry[j] = "process" =>
      /\ j_pc[j] \in {"setup", "downloaded"} => OutputDir(j) = Workdir(j)
      /\ (actor = j /\ j_pc[j] = "cleaned" /\ Workdir(j) \notin DOMAIN fs)
         => OutputDir(j) \notin DOMAIN fs

\* C33: in a command made of option tokens followed by the URL, parse_options
\* records the URL as the value of no option, and the command line built from
\* the options holds the URL in no place before the trailing argument.
C33_UrlIsNeverAnOptionValue ==
  (call_done /\ ~call_arg.reply) =>
    /\ \A i \in 1..Len(call_ret.options) :
         call_ret.options[i].isbool \/ call_ret.options[i].val # "url"
    /\ \A i \in 1..Len(build_apple_options(call_ret.options)) :
         build_apple_options(call_ret.options)[i] # "url"

\* C34: the command handler sends the task-completed message only for a job
\* that succeeded; after a failed job it has sent the failure message and no
\* task-completed message.
C34_CompletedOnlyAfterSuccess ==
  /\ \A i \in 1..Len(sent_msgs) : sent_msgs[i] = "TASK_COMPLETED" => ~failed
  /\ (failed /\ dt_pc = "end") => sent_msgs = <<"Download failed">>

\* C35: a command handler that took the anti-spam entry has released it when
\* it is over, whether it ran to its end or an exception left it.
C35_AntiSpamReleasedWhenOver ==
  dt_pc \in {"end", "raised"} => ~spam_held

\* uploader.py:33-45: the fields track_upload reads with metadata[...].
DeliveryFields == {"title", "artist", "duration", "thumbnail"}

\* C36: every record extract_apple_metadata returns, from a tag-reading
\* strategy or from the fallback, has all the fields the single-item delivery
\* reads without a default.
C36_RecordHasDeliveryFields ==
  call_done => DeliveryFields \subseteq call_ret.keys

Spec == Init /\ [][Next]_vars

====
